---- MODULE Spec2Model ----
(***************************************************************************)
(* Blue/green deployment orchestrator (deploy/orchestrator.py).            *)
(*                                                                         *)
(* One orchestrator process runs one operation at a time (deploy, prewarm, *)
(* deploy_fast, rollback).  The program counter pc stops between any two   *)
(* external calls of an operation, so that every intermediate moment of    *)
(* the proxy / container world is a state of the model.                    *)
(*                                                                         *)
(* Outcome model of run_command (orchestrator.py:104-133):                 *)
(*   check=True  : the command succeeds, or DeploymentError is raised      *)
(*                 (rc # 0 or timeout).  A reload that is reported failed  *)
(*                 by timeout may or may not have been applied by nginx.   *)
(*   check=False : the command returns and has taken effect.               *)
(* Probes (readiness, warmup, verification) answer from the state of the   *)
(* replica they reach.                                                     *)
(***************************************************************************)
EXTENDS Integers, Sequences, FiniteSets, TLC

\* ---------------------------------------------------------------- bounds
MaxOps == 2
MaxExt == 1
\* length, in poll intervals, of the longest readiness window
MaxWait == 3

\* ------------------------------------------------------ program constants
BluePort == 8000
GreenPort == 8001
HistoryLimit == 20
NumProbes == 3

Colors == {"blue", "green"}

Other(c) == IF c = "blue" THEN "green" ELSE "blue"

PortOf(c) == IF c = "blue" THEN BluePort ELSE GreenPort

\* the replica that listens on a local port
ColorAtPort(p) == IF p = BluePort THEN "blue" ELSE "green"

VARIABLES
    running,     \* [Colors -> BOOLEAN]  container of the color is running
    healthy,     \* [Colors -> BOOLEAN]  its /ready answers "ready"
    cid,         \* [Colors -> Nat]      runtime id of its container (0: none)
    nextId,      \* next id the container runtime issues
    confDisk,    \* upstream color written in nginx/conf.d/default.conf
    confLoaded,  \* upstream color the nginx daemon has loaded
    stateFile,   \* deploy/state.json      : <<>> (absent) or <<doc>>
    bakFile,     \* deploy/state.json.bak  : <<>> (absent) or <<doc>>
    pc,          \* position of the orchestrator process
    op,          \* operation in progress ("none" when idle)
    st,          \* the operation's local `state` dict : <<>> or <<doc>>
    loc,         \* the operation's other locals (those of the call, in
                 \* the specifications of one probe or one save_state)
    clock,       \* logical time: advances when an operation starts
    extCount,    \* number of external events so far
    g            \* observation record (history variables of the checks)

vars == <<running, healthy, cid, nextId, confDisk, confLoaded,
          stateFile, bakFile, pc, op, st, loc, clock, extCount, g>>

world == <<running, healthy, cid, nextId>>
conf == <<confDisk, confLoaded>>
files == <<stateFile, bakFile>>

\* ------------------------------------------------------------ state store

DefaultState ==
    [ active_color         |-> "blue",
      active_port          |-> BluePort,
      standby_color        |-> "green",
      standby_port         |-> GreenPort,
      last_deployment      |-> 0,
      deployment_count     |-> 0,
      standby_prewarmed    |-> FALSE,
      standby_prewarmed_at |-> 0,
      standby_container_id |-> 0,
      history              |-> <<>> ]

FS == [file |-> stateFile, bak |-> bakFile]

\* save_state: copy the previous file to .bak, then write the document
SaveState(fs, doc) ==
    [ file |-> <<doc>>,
      bak  |-> IF fs.file # <<>> THEN fs.file ELSE fs.bak ]

\* read_state: the document, created with the defaults when absent
ReadState(fs) ==
    IF fs.file = <<>>
    THEN [fs |-> SaveState(fs, DefaultState), state |-> DefaultState]
    ELSE [fs |-> fs, state |-> fs.file[1]]

\* seeded fault: the history is not cut
TruncateOff(h) == h

\* h[-20:]
Truncate(h) ==
    IF Len(h) <= HistoryLimit THEN h
    ELSE SubSeq(h, Len(h) - HistoryLimit + 1, Len(h))

Entry(from, to, ok, md, rb, err, now) ==
    [ timestamp  |-> now,
      from_color |-> from,
      to_color   |-> to,
      success    |-> ok,
      mode       |-> md,
      rollback   |-> rb,
      error      |-> err ]

ClearPrewarm(s) ==
    [s EXCEPT !.standby_prewarmed = FALSE,
              !.standby_prewarmed_at = 0,
              !.standby_container_id = 0]

\* seeded fault: the port pair is not swapped with the color pair
NewStateKeepsPorts(s, activeColor, activePort, targetColor, targetPort, e, now) ==
    [ active_color         |-> targetColor,
      active_port          |-> activePort,
      standby_color        |-> activeColor,
      standby_port         |-> targetPort,
      last_deployment      |-> now,
      deployment_count     |-> s.deployment_count + 1,
      standby_prewarmed    |-> FALSE,
      standby_prewarmed_at |-> 0,
      standby_container_id |-> 0,
      history              |-> Truncate(Append(s.history, e)) ]

\* seeded fault: deployment_count is copied, not incremented
NewStateNoBump(s, activeColor, activePort, targetColor, targetPort, e, now) ==
    [ active_color         |-> targetColor,
      active_port          |-> targetPort,
      standby_color        |-> activeColor,
      standby_port         |-> activePort,
      last_deployment      |-> now,
      deployment_count     |-> s.deployment_count,
      standby_prewarmed    |-> FALSE,
      standby_prewarmed_at |-> 0,
      standby_container_id |-> 0,
      history              |-> Truncate(Append(s.history, e)) ]

\* seeded fault: the pre-warm fields are carried over
NewStateKeepsPrewarm(s, activeColor, activePort, targetColor, targetPort, e, now) ==
    [ active_color         |-> targetColor,
      active_port          |-> targetPort,
      standby_color        |-> activeColor,
      standby_port         |-> activePort,
      last_deployment      |-> now,
      deployment_count     |-> s.deployment_count + 1,
      standby_prewarmed    |-> s.standby_prewarmed,
      standby_prewarmed_at |-> s.standby_prewarmed_at,
      standby_container_id |-> s.standby_container_id,
      history              |-> Truncate(Append(s.history, e)) ]

\* the new_state dict of deploy, deploy_fast and rollback
NewState(s, activeColor, activePort, targetColor, targetPort, e, now) ==
    [ active_color         |-> targetColor,
      active_port          |-> targetPort,
      standby_color        |-> activeColor,
      standby_port         |-> activePort,
      last_deployment      |-> now,
      deployment_count     |-> s.deployment_count + 1,
      standby_prewarmed    |-> FALSE,
      standby_prewarmed_at |-> 0,
      standby_container_id |-> 0,
      history              |-> Truncate(Append(s.history, e)) ]

\* seeded fault: a failure is counted as a deployment
RecordFailureCounts(s, e) ==
    [s EXCEPT !.history = Truncate(Append(s.history, e)),
              !.deployment_count = @ + 1,
              !.last_deployment = e.timestamp]

\* the failure record appended by the except blocks
RecordFailure(s, e) ==
    [s EXCEPT !.history = Truncate(Append(s.history, e))]

\* ------------------------------------------------------------------ probes

\* docker compose ps <service> reports State "running"
ServiceRunning(c) == running[c]

\* docker inspect reports .State.Running "true"
ContainerRunning(c) == running[c]

\* check_container_health: a poll of /ready on the port answers "ready"
\* within the window
ReadyAt(p) == running[ColorAtPort(p)] /\ healthy[ColorAtPort(p)]

\* _quick_health_check: one curl -sf of /ready on the port
QuickCheck(p) == running[ColorAtPort(p)] /\ healthy[ColorAtPort(p)]

\* curl -sf http://localhost/healthz : the proxy reaches the loaded upstream
ProxyAlive == running[confLoaded]

\* a client request through the proxy is answered by a ready replica
Serving == running[confLoaded] /\ healthy[confLoaded]

ServingNext == running'[confLoaded'] /\ healthy'[confLoaded']

\* ------------------------------------------------------- container runtime

\* docker compose --profile deploy stop <color> ; rm -f <color>   (check=False)
ComposeStop(c) ==
    /\ running' = [running EXCEPT ![c] = FALSE]
    /\ healthy' = [healthy EXCEPT ![c] = FALSE]
    /\ cid' = [cid EXCEPT ![c] = 0]
    /\ UNCHANGED nextId

\* _stop_container
StopContainer(c) == ComposeStop(c)

\* docker compose --profile deploy up -d <color> succeeded and the service is
\* reported running: a new container with a fresh id; whether its model
\* becomes ready is decided by the replica
ComposeUp(c, becomesReady) ==
    IF running[c]
    THEN UNCHANGED world
    ELSE /\ running' = [running EXCEPT ![c] = TRUE]
         /\ healthy' = [healthy EXCEPT ![c] = becomesReady]
         /\ cid' = [cid EXCEPT ![c] = nextId]
         /\ nextId' = nextId + 1

\* ------------------------------------------------------------ observation

Snapshot ==
    [ file |-> stateFile, disk |-> confDisk, loaded |-> confLoaded,
      running |-> running, healthy |-> healthy, cid |-> cid ]

NoOp == [op |-> "none", ok |-> FALSE, at |-> "none"]

LocIdle ==
    [ active_color |-> "none", target_color |-> "none",
      active_port |-> 0, target_port |-> 0,
      original_nginx_config |-> "none", swap_original |-> "none",
      container_id |-> 0, successes |-> 0, error |-> "none" ]

\* an operation starts: remember the state it starts from
ObsBegin ==
    g' = [g EXCEPT !.prev = g.last, !.prevPre = g.pre,
                   !.prevDropped = g.dropped,
                   !.pre = Snapshot, !.last = NoOp,
                   !.dropped = ~Serving \/ ~ServingNext,
                   !.passed = {}, !.restoreFailed = FALSE,
                   !.read = "none"]

\* a step of an operation
Obs(passedNow, restoreFailedNow) ==
    g' = [g EXCEPT !.dropped = @ \/ ~ServingNext,
                   !.passed = @ \cup passedNow,
                   !.restoreFailed = @ \/ restoreFailedNow]

\* the operation returns (ok) or raises (~ok) to its caller
End(ok, at) ==
    /\ pc' = "idle"
    /\ op' = "none"
    /\ st' = <<>>
    /\ loc' = LocIdle
    /\ g' = [g EXCEPT !.dropped = @ \/ ~ServingNext,
                      !.last = [op |-> op, ok |-> ok, at |-> at]]

\* raise DeploymentError at a step inside the try block of the operation
Fail(step) ==
    /\ pc' = CASE op = "deploy"  -> "h_rollback"
               [] op = "fast"    -> "h_rollback"
               [] op = "prewarm" -> "ph_cleanup"
               [] OTHER          -> "idle"
    /\ loc' = [loc EXCEPT !.error = step]

\* ------------------------------------------------------------------ deploy

\* seeded fault: deploy keeps a pre-warmed standby
DeployBeginKeepsPrewarm ==
    /\ pc = "idle"
    /\ clock <= MaxOps
    /\ clock' = clock + 1
    /\ UNCHANGED <<world, conf, extCount>>
    /\ LET r == ReadState(FS) IN
          /\ stateFile' = r.fs.file
          /\ bakFile' = r.fs.bak
          /\ st' = <<r.state>>
          /\ loc' = [LocIdle EXCEPT !.active_color = r.state.active_color,
                                    !.target_color = r.state.standby_color,
                                    !.active_port = r.state.active_port,
                                    !.target_port = r.state.standby_port]
    /\ pc' = "d_preflight"
    /\ op' = "deploy"
    /\ ObsBegin

\* deploy, lines 645-668: read the state; a pre-warmed standby is stopped and
\* the pre-warm fields are cleared and saved
DeployBegin ==
    /\ pc = "idle"
    /\ clock <= MaxOps
    /\ clock' = clock + 1
    /\ UNCHANGED extCount
    /\ UNCHANGED conf
    /\ LET r  == ReadState(FS)
           s0 == r.state
           pw == s0.standby_prewarmed
           s1 == IF pw THEN ClearPrewarm(s0) ELSE s0
           fs == IF pw THEN SaveState(r.fs, s1) ELSE r.fs
       IN /\ stateFile' = fs.file
          /\ bakFile' = fs.bak
          /\ st' = <<s1>>
          /\ IF pw /\ ContainerRunning(s0.standby_color)
             THEN StopContainer(s0.standby_color)
             ELSE UNCHANGED world
          /\ loc' = [LocIdle EXCEPT !.active_color = s1.active_color,
                                    !.target_color = s1.standby_color,
                                    !.active_port = s1.active_port,
                                    !.target_port = s1.standby_port]
    /\ pc' = "d_preflight"
    /\ op' = "deploy"
    /\ ObsBegin

\* seeded fault: preflight stops the active replica instead of the leftover
\* standby
DeployPreflightStopsActive ==
    /\ pc = "d_preflight"
    /\ UNCHANGED <<conf, files, op, st, clock, extCount>>
    /\ LET s == st[1] IN
       IF ~ServiceRunning(s.active_color)
          \/ ~ReadyAt(s.active_port)
          \/ ~ProxyAlive
       THEN /\ Fail("preflight")
            /\ UNCHANGED world
       ELSE /\ IF ServiceRunning(s.standby_color)
               THEN ComposeStop(s.active_color)
               ELSE UNCHANGED world
            /\ pc' = "d_start"
            /\ UNCHANGED loc
    /\ Obs({"preflight"}, FALSE)

\* preflight_checks, lines 255-312
DeployPreflight ==
    /\ pc = "d_preflight"
    /\ UNCHANGED <<conf, files, op, st, clock, extCount>>
    /\ LET s == st[1] IN
       IF ~ServiceRunning(s.active_color)
          \/ ~ReadyAt(s.active_port)
          \/ ~ProxyAlive
       THEN /\ Fail("preflight")
            /\ UNCHANGED world
       ELSE /\ IF ServiceRunning(s.standby_color)
               THEN ComposeStop(s.standby_color)
               ELSE UNCHANGED world
            /\ pc' = "d_start"
            /\ UNCHANGED loc
    /\ Obs({"preflight"}, FALSE)

\* start_standby, lines 316-334
StartStandby(next) ==
    /\ UNCHANGED <<conf, files, op, st, clock, extCount>>
    /\ \/ \E becomesReady \in BOOLEAN :
             /\ ComposeUp(st[1].standby_color, becomesReady)
             /\ pc' = next
             /\ UNCHANGED loc
             /\ Obs({"start"}, FALSE)
       \/ /\ UNCHANGED world
          /\ Fail("start")
          /\ Obs({}, FALSE)

DeployStart ==
    /\ pc = "d_start"
    /\ StartStandby("d_health")

\* deploy step 5, lines 687-694
DeployHealth ==
    /\ pc = "d_health"
    /\ UNCHANGED <<world, conf, files, op, st, clock, extCount>>
    /\ IF ReadyAt(loc.target_port)
       THEN pc' = "d_warmup" /\ UNCHANGED loc /\ Obs({"health"}, FALSE)
       ELSE Fail("health") /\ Obs({}, FALSE)

\* warmup_inference, lines 336-384: the replica on the port answers the chat
\* request with a body that has a "response" field, or the call raises
WarmupInference(p, next) ==
    /\ UNCHANGED <<world, conf, files, op, st, clock, extCount>>
    /\ \/ /\ ReadyAt(p)
          /\ pc' = next
          /\ UNCHANGED loc
          /\ Obs({"warmup"}, FALSE)
       \/ /\ Fail("warmup")
          /\ Obs({}, FALSE)

DeployWarmup ==
    /\ pc = "d_warmup"
    /\ WarmupInference(loc.target_port, "swap_write")

\* ------------------------------------------------------------- swap_nginx

\* swap_nginx steps 1-2, lines 389-397: keep the current config, write the
\* target template over it
SwapWrite ==
    /\ pc = "swap_write"
    /\ UNCHANGED <<world, confLoaded, files, op, st, clock, extCount>>
    /\ loc' = [loc EXCEPT !.swap_original = confDisk]
    /\ confDisk' = loc.target_color
    /\ pc' = "swap_test"
    /\ Obs({}, FALSE)

\* swap_nginx step 3, lines 399-405: nginx -t; on failure the original is
\* written back and the call raises
SwapTest ==
    /\ pc = "swap_test"
    /\ UNCHANGED <<world, confLoaded, files, op, st, clock, extCount>>
    /\ \/ /\ pc' = "swap_reload"
          /\ UNCHANGED <<confDisk, loc>>
       \/ /\ confDisk' = loc.swap_original
          /\ Fail("swap_test")
    /\ Obs({}, FALSE)

\* swap_nginx step 4, lines 407-417 and 426: nginx -s reload; on success the
\* caller receives the original config; on failure the original is written
\* back.  A reload reported failed may have been applied or not.
SwapReload ==
    /\ pc = "swap_reload"
    /\ UNCHANGED <<world, files, op, st, clock, extCount>>
    /\ \/ /\ confLoaded' = confDisk
          /\ loc' = [loc EXCEPT !.original_nginx_config = loc.swap_original]
          /\ pc' = "drain"
          /\ UNCHANGED confDisk
          /\ Obs({"reload"}, FALSE)
       \/ \E applied \in BOOLEAN :
             /\ confLoaded' = IF applied THEN confDisk ELSE confLoaded
             /\ confDisk' = loc.swap_original
             /\ pc' = "swap_reload2"
             /\ UNCHANGED loc
             /\ Obs({}, FALSE)

\* seeded fault: after the best-effort reload the reload is tried again
SwapReloadAgainRetries ==
    /\ pc = "swap_reload2"
    /\ UNCHANGED <<world, confDisk, files, op, st, loc, clock, extCount>>
    /\ \E ok \in BOOLEAN :
          /\ confLoaded' = IF ok THEN confDisk ELSE confLoaded
          /\ Obs({}, ~ok)
    /\ pc' = "swap_reload"

\* swap_nginx lines 418-424: the second, best-effort reload (its failure is
\* swallowed), then raise
SwapReloadAgain ==
    /\ pc = "swap_reload2"
    /\ UNCHANGED <<world, confDisk, files, op, st, clock, extCount>>
    /\ \E ok \in BOOLEAN :
          /\ confLoaded' = IF ok THEN confDisk ELSE confLoaded
          /\ Obs({}, ~ok)
    /\ Fail("swap_reload")

\* time.sleep(self.drain_seconds), deploy line 712, deploy_fast line 934
Drain ==
    /\ pc = "drain"
    /\ UNCHANGED <<world, conf, files, op, st, loc, clock, extCount>>
    /\ pc' = "verify"
    /\ Obs({"drain"}, FALSE)

\* seeded fault: one successful probe is enough
VerifyTrafficSwitchedLenient ==
    /\ pc = "verify"
    /\ UNCHANGED <<world, conf, files, op, st, clock, extCount>>
    /\ \E n \in 0..NumProbes :
          /\ n > 0 => ProxyAlive
          /\ IF n >= 1
             THEN /\ pc' = "stop_old"
                  /\ loc' = [loc EXCEPT !.successes = n]
                  /\ Obs({"verify"}, FALSE)
             ELSE /\ pc' = "h_rollback"
                  /\ loc' = [loc EXCEPT !.successes = n, !.error = "verify"]
                  /\ Obs({}, FALSE)

\* verify_traffic_switched, lines 428-465: 3 probes of /healthz through the
\* proxy; each can succeed only if the loaded upstream is alive
VerifyTrafficSwitched ==
    /\ pc = "verify"
    /\ UNCHANGED <<world, conf, files, op, st, clock, extCount>>
    /\ \E n \in 0..NumProbes :
          /\ n > 0 => ProxyAlive
          /\ IF n = NumProbes
             THEN /\ pc' = "stop_old"
                  /\ loc' = [loc EXCEPT !.successes = n]
                  /\ Obs({"verify"}, FALSE)
             ELSE /\ pc' = "h_rollback"
                  /\ loc' = [loc EXCEPT !.successes = n, !.error = "verify"]
                  /\ Obs({}, FALSE)

\* seeded fault: the old container is left running
StopOldSkipped ==
    /\ pc = "stop_old"
    /\ UNCHANGED <<world, conf, files, op, st, loc, clock, extCount>>
    /\ pc' = "save"
    /\ Obs({"stop_old"}, FALSE)

\* drain_and_stop_old(active_color, 0), lines 474-489
StopOld ==
    /\ pc = "stop_old"
    /\ UNCHANGED <<conf, files, op, st, loc, clock, extCount>>
    /\ ComposeStop(loc.active_color)
    /\ pc' = "save"
    /\ Obs({"stop_old"}, FALSE)

\* history entries of deploy carry no "mode" key; deploy_fast writes "fast"
DeployMode == "none"

FastMode == "fast"

\* deploy step 13, lines 729-757
DeploySave ==
    /\ pc = "save"
    /\ op = "deploy"
    /\ UNCHANGED <<world, conf, clock, extCount>>
    /\ LET e == Entry(loc.active_color, loc.target_color, TRUE,
                      DeployMode, FALSE, "none", clock)
           n == NewState(st[1], loc.active_color, loc.active_port,
                         loc.target_color, loc.target_port, e, clock)
           fs == SaveState(FS, n)
       IN /\ stateFile' = fs.file
          /\ bakFile' = fs.bak
    /\ End(TRUE, "none")

\* seeded fault: deploy_fast keeps the pre-warm fields of the old state
FastSaveKeepsPrewarm ==
    /\ pc = "save"
    /\ op = "fast"
    /\ UNCHANGED <<world, conf, clock, extCount>>
    /\ LET e == Entry(loc.active_color, loc.target_color, TRUE,
                      FastMode, FALSE, "none", clock)
           n == NewState(st[1], loc.active_color, loc.active_port,
                         loc.target_color, loc.target_port, e, clock)
           k == [n EXCEPT
                   !.standby_prewarmed = st[1].standby_prewarmed,
                   !.standby_prewarmed_at = st[1].standby_prewarmed_at,
                   !.standby_container_id = st[1].standby_container_id]
           fs == SaveState(FS, k)
       IN /\ stateFile' = fs.file
          /\ bakFile' = fs.bak
    /\ End(TRUE, "none")

\* deploy_fast step 10, lines 949-973
FastSave ==
    /\ pc = "save"
    /\ op = "fast"
    /\ UNCHANGED <<world, conf, clock, extCount>>
    /\ LET e == Entry(loc.active_color, loc.target_color, TRUE,
                      FastMode, FALSE, "none", clock)
           n == NewState(st[1], loc.active_color, loc.active_port,
                         loc.target_color, loc.target_port, e, clock)
           fs == SaveState(FS, n)
       IN /\ stateFile' = fs.file
          /\ bakFile' = fs.bak
    /\ End(TRUE, "none")

\* ------------------------------------------- except blocks of deploy(_fast)

\* seeded fault: the except block never restores the proxy config
HandlerRollbackNginxSkips ==
    /\ pc = "h_rollback"
    /\ UNCHANGED <<world, conf, files, op, st, loc, clock, extCount>>
    /\ pc' = "h_standby"
    /\ Obs({}, FALSE)

\* seeded fault: a failure of the restore ends the except block
HandlerRollbackNginxMasks ==
    /\ pc = "h_rollback"
    /\ UNCHANGED <<world, confLoaded, files, clock, extCount>>
    /\ IF loc.original_nginx_config = "none"
       THEN /\ pc' = "h_standby"
            /\ UNCHANGED <<confDisk, op, st, loc>>
            /\ Obs({}, FALSE)
       ELSE /\ confDisk' = loc.original_nginx_config
            /\ \/ /\ pc' = "h_reload"
                  /\ UNCHANGED <<op, st, loc>>
                  /\ Obs({}, FALSE)
               \/ /\ pc' = "idle"
                  /\ op' = "none"
                  /\ st' = <<>>
                  /\ loc' = LocIdle
                  /\ g' = [g EXCEPT !.restoreFailed = TRUE,
                                    !.last = [op |-> op, ok |-> FALSE,
                                              at |-> "restore"]]

\* rollback_nginx, lines 467-472, called when original_nginx_config is set:
\* write the original back and nginx -t
HandlerRollbackNginx ==
    /\ pc = "h_rollback"
    /\ UNCHANGED <<world, confLoaded, files, op, st, loc, clock, extCount>>
    /\ IF loc.original_nginx_config = "none"
       THEN /\ pc' = "h_standby"
            /\ UNCHANGED confDisk
            /\ Obs({}, FALSE)
       ELSE /\ confDisk' = loc.original_nginx_config
            /\ \/ pc' = "h_reload" /\ Obs({}, FALSE)
               \/ pc' = "h_standby" /\ Obs({}, TRUE)

\* rollback_nginx line 471: nginx -s reload
HandlerReload ==
    /\ pc = "h_reload"
    /\ UNCHANGED <<world, confDisk, files, op, st, loc, clock, extCount>>
    /\ \/ confLoaded' = confDisk /\ Obs({}, FALSE)
       \/ \E applied \in BOOLEAN :
             /\ confLoaded' = IF applied THEN confDisk ELSE confLoaded
             /\ Obs({}, TRUE)
    /\ pc' = "h_standby"

\* seeded fault: the except block of deploy leaves the standby running
HandlerStandbyLeaves ==
    /\ pc = "h_standby"
    /\ UNCHANGED <<world, conf, files, op, st, loc, clock, extCount>>
    /\ pc' = "h_record"
    /\ Obs({}, FALSE)

\* seeded fault: the except block of deploy_fast never resets the pre-warm
\* fields
HandlerStandbyNeverResets ==
    /\ pc = "h_standby"
    /\ UNCHANGED <<conf, op, loc, clock, extCount>>
    /\ IF op = "deploy"
       THEN /\ ComposeStop(loc.target_color)
            /\ UNCHANGED <<files, st>>
       ELSE /\ UNCHANGED world
            /\ UNCHANGED <<files, st>>
    /\ pc' = "h_record"
    /\ Obs({}, FALSE)

\* seeded fault: the except block of deploy_fast stops the standby as the
\* except block of deploy does
HandlerStandbyStopsAlways ==
    /\ pc = "h_standby"
    /\ UNCHANGED <<conf, op, loc, clock, extCount>>
    /\ ComposeStop(loc.target_color)
    /\ IF op = "deploy"
       THEN UNCHANGED <<files, st>>
       ELSE LET s == ClearPrewarm(st[1])
                fs == SaveState(FS, s)
            IN /\ st' = <<s>>
               /\ stateFile' = fs.file
               /\ bakFile' = fs.bak
    /\ pc' = "h_record"
    /\ Obs({}, FALSE)

\* deploy lines 780-797: always stop the standby container.
\* deploy_fast lines 991-1001: leave it; reset the pre-warm fields only if
\* the container is not running
HandlerStandby ==
    /\ pc = "h_standby"
    /\ UNCHANGED <<conf, op, loc, clock, extCount>>
    /\ IF op = "deploy"
       THEN /\ ComposeStop(loc.target_color)
            /\ UNCHANGED <<files, st>>
       ELSE /\ UNCHANGED world
            /\ IF ~ContainerRunning(loc.target_color)
               THEN LET s == ClearPrewarm(st[1])
                        fs == SaveState(FS, s)
                    IN /\ st' = <<s>>
                       /\ stateFile' = fs.file
                       /\ bakFile' = fs.bak
               ELSE UNCHANGED <<files, st>>
    /\ pc' = "h_record"
    /\ Obs({}, FALSE)

\* deploy lines 799-815 / deploy_fast lines 1003-1018: re-read the state,
\* append the failure, save, re-raise
HandlerRecord ==
    /\ pc = "h_record"
    /\ UNCHANGED <<world, conf, clock, extCount>>
    /\ LET r == ReadState(FS)
           e == Entry(loc.active_color, loc.target_color, FALSE,
                      IF op = "fast" THEN FastMode ELSE DeployMode,
                      FALSE, loc.error, clock)
           fs == SaveState(r.fs, RecordFailure(r.state, e))
       IN /\ stateFile' = fs.file
          /\ bakFile' = fs.bak
    /\ End(FALSE, loc.error)

\* ----------------------------------------------------------------- prewarm

\* prewarm lines 514-519
PrewarmBegin ==
    /\ pc = "idle"
    /\ clock <= MaxOps
    /\ clock' = clock + 1
    /\ UNCHANGED <<world, conf, extCount>>
    /\ LET r == ReadState(FS) IN
          /\ stateFile' = r.fs.file
          /\ bakFile' = r.fs.bak
          /\ st' = <<r.state>>
          /\ loc' = [LocIdle EXCEPT !.active_color = r.state.active_color,
                                    !.target_color = r.state.standby_color,
                                    !.active_port = r.state.active_port,
                                    !.target_port = r.state.standby_port]
    /\ pc' = "p_preflight"
    /\ op' = "prewarm"
    /\ ObsBegin

\* seeded fault: the preflight of prewarm stops the active replica instead of
\* the stale standby
PrewarmPreflightStopsActive ==
    /\ pc = "p_preflight"
    /\ UNCHANGED <<conf, files, clock, extCount>>
    /\ LET s == st[1] IN
       IF ~ServiceRunning(s.active_color)
          \/ ~ReadyAt(s.active_port)
          \/ ~ProxyAlive
       THEN /\ Fail("preflight")
            /\ UNCHANGED <<world, op, st>>
            /\ Obs({}, FALSE)
       ELSE IF ContainerRunning(s.standby_color)
                 /\ s.standby_prewarmed
                 /\ QuickCheck(s.standby_port)
       THEN /\ UNCHANGED world
            /\ End(TRUE, "already_warm")
       ELSE /\ IF ContainerRunning(s.standby_color)
               THEN StopContainer(s.active_color)
               ELSE UNCHANGED world
            /\ pc' = "p_start"
            /\ UNCHANGED <<loc, op, st>>
            /\ Obs({"preflight"}, FALSE)

\* seeded fault: a healthy pre-warmed standby is restarted all the same
PrewarmPreflightAlwaysRestarts ==
    /\ pc = "p_preflight"
    /\ UNCHANGED <<conf, files, clock, extCount>>
    /\ LET s == st[1] IN
       IF ~ServiceRunning(s.active_color)
          \/ ~ReadyAt(s.active_port)
          \/ ~ProxyAlive
       THEN /\ Fail("preflight")
            /\ UNCHANGED <<world, op, st>>
            /\ Obs({}, FALSE)
       ELSE /\ IF ContainerRunning(s.standby_color)
               THEN StopContainer(s.standby_color)
               ELSE UNCHANGED world
            /\ pc' = "p_start"
            /\ UNCHANGED <<loc, op, st>>
            /\ Obs({"preflight"}, FALSE)

\* seeded fault: a stale standby is left as it is
PrewarmPreflightKeepsStale ==
    /\ pc = "p_preflight"
    /\ UNCHANGED <<conf, files, clock, extCount>>
    /\ LET s == st[1] IN
       IF ~ServiceRunning(s.active_color)
          \/ ~ReadyAt(s.active_port)
          \/ ~ProxyAlive
       THEN /\ Fail("preflight")
            /\ UNCHANGED <<world, op, st>>
            /\ Obs({}, FALSE)
       ELSE IF ContainerRunning(s.standby_color)
                 /\ s.standby_prewarmed
                 /\ QuickCheck(s.standby_port)
       THEN /\ UNCHANGED world
            /\ End(TRUE, "already_warm")
       ELSE /\ IF ContainerRunning(s.standby_color)
               THEN UNCHANGED world
               ELSE UNCHANGED world
            /\ pc' = "p_start"
            /\ UNCHANGED <<loc, op, st>>
            /\ Obs({"preflight"}, FALSE)

\* prewarm step 1, lines 528-582
PrewarmPreflight ==
    /\ pc = "p_preflight"
    /\ UNCHANGED <<conf, files, clock, extCount>>
    /\ LET s == st[1] IN
       IF ~ServiceRunning(s.active_color)
          \/ ~ReadyAt(s.active_port)
          \/ ~ProxyAlive
       THEN /\ Fail("preflight")
            /\ UNCHANGED <<world, op, st>>
            /\ Obs({}, FALSE)
       ELSE IF ContainerRunning(s.standby_color)
                 /\ s.standby_prewarmed
                 /\ QuickCheck(s.standby_port)
       THEN /\ UNCHANGED world
            /\ End(TRUE, "already_warm")
       ELSE /\ IF ContainerRunning(s.standby_color)
               THEN StopContainer(s.standby_color)
               ELSE UNCHANGED world
            /\ pc' = "p_start"
            /\ UNCHANGED <<loc, op, st>>
            /\ Obs({"preflight"}, FALSE)

PrewarmStart ==
    /\ pc = "p_start"
    /\ StartStandby("p_health")

\* prewarm step 3, lines 589-601
PrewarmHealth ==
    /\ pc = "p_health"
    /\ UNCHANGED <<world, conf, files, op, st, clock, extCount>>
    /\ IF ReadyAt(loc.target_port)
       THEN pc' = "p_warmup" /\ UNCHANGED loc /\ Obs({"health"}, FALSE)
       ELSE Fail("health") /\ Obs({}, FALSE)

\* seeded fault: the warm-up inference of prewarm is skipped
PrewarmWarmupSkipped ==
    /\ pc = "p_warmup"
    /\ UNCHANGED <<world, conf, files, op, st, loc, clock, extCount>>
    /\ pc' = "p_id"
    /\ Obs({}, FALSE)

PrewarmWarmup ==
    /\ pc = "p_warmup"
    /\ WarmupInference(loc.target_port, "p_id")

\* seeded fault: the container id is persisted as soon as it is known
PrewarmContainerIdSaves ==
    /\ pc = "p_id"
    /\ UNCHANGED <<world, conf, op, st, clock, extCount>>
    /\ loc' = [loc EXCEPT !.container_id = cid[loc.target_color]]
    /\ LET s == [st[1] EXCEPT !.standby_container_id = cid[loc.target_color]]
           fs == SaveState(FS, s)
       IN /\ stateFile' = fs.file
          /\ bakFile' = fs.bak
    /\ pc' = "p_save"
    /\ Obs({}, FALSE)

\* prewarm step 5, line 609: _get_container_id (docker inspect, check=True)
PrewarmContainerId ==
    /\ pc = "p_id"
    /\ UNCHANGED <<world, conf, files, op, st, clock, extCount>>
    /\ \/ /\ loc' = [loc EXCEPT !.container_id = cid[loc.target_color]]
          /\ pc' = "p_save"
       \/ Fail("container_id")
    /\ Obs({}, FALSE)

\* seeded fault: the container id is not stored
PrewarmSaveNoId ==
    /\ pc = "p_save"
    /\ UNCHANGED <<world, conf, clock, extCount>>
    /\ LET s == [st[1] EXCEPT !.standby_prewarmed = TRUE,
                              !.standby_prewarmed_at = clock]
           fs == SaveState(FS, s)
       IN /\ stateFile' = fs.file
          /\ bakFile' = fs.bak
    /\ End(TRUE, "none")

\* prewarm step 6, lines 612-617
PrewarmSave ==
    /\ pc = "p_save"
    /\ UNCHANGED <<world, conf, clock, extCount>>
    /\ LET s == [st[1] EXCEPT !.standby_prewarmed = TRUE,
                              !.standby_prewarmed_at = clock,
                              !.standby_container_id = loc.container_id]
           fs == SaveState(FS, s)
       IN /\ stateFile' = fs.file
          /\ bakFile' = fs.bak
    /\ End(TRUE, "none")

\* seeded fault: the except block of prewarm leaves the standby running
PrewarmCleanupLeavesStandby ==
    /\ pc = "ph_cleanup"
    /\ UNCHANGED <<world, conf, clock, extCount>>
    /\ LET fs == SaveState(FS, ClearPrewarm(st[1])) IN
          /\ stateFile' = fs.file
          /\ bakFile' = fs.bak
    /\ End(FALSE, loc.error)

\* prewarm except block, lines 624-641
PrewarmCleanup ==
    /\ pc = "ph_cleanup"
    /\ UNCHANGED <<conf, clock, extCount>>
    /\ StopContainer(loc.target_color)
    /\ LET fs == SaveState(FS, ClearPrewarm(st[1])) IN
          /\ stateFile' = fs.file
          /\ bakFile' = fs.bak
    /\ End(FALSE, loc.error)

\* ------------------------------------------------------------- deploy_fast

\* deploy_fast lines 841-847
FastBegin ==
    /\ pc = "idle"
    /\ clock <= MaxOps
    /\ clock' = clock + 1
    /\ UNCHANGED <<world, conf, extCount>>
    /\ LET r == ReadState(FS) IN
          /\ stateFile' = r.fs.file
          /\ bakFile' = r.fs.bak
          /\ st' = <<r.state>>
          /\ loc' = [LocIdle EXCEPT !.active_color = r.state.active_color,
                                    !.target_color = r.state.standby_color,
                                    !.active_port = r.state.active_port,
                                    !.target_port = r.state.standby_port]
    /\ pc' = "f_check"
    /\ op' = "fast"
    /\ ObsBegin

\* deploy_fast step 1, lines 854-881
FastCheckPrewarmed ==
    /\ pc = "f_check"
    /\ UNCHANGED <<world, conf, files, op, st, clock, extCount>>
    /\ IF st[1].standby_prewarmed
       THEN pc' = "f_identity" /\ UNCHANGED loc /\ Obs({"prewarmed"}, FALSE)
       ELSE Fail("not_prewarmed") /\ Obs({}, FALSE)

\* seeded fault: the container id is not compared
FastIdentityNoIdCheck ==
    /\ pc = "f_identity"
    /\ UNCHANGED <<world, conf, files, op, st, clock, extCount>>
    /\ IF ~ContainerRunning(loc.target_color)
       THEN Fail("not_running") /\ Obs({}, FALSE)
       ELSE /\ pc' = "f_quick"
            /\ UNCHANGED loc
            /\ Obs({"running"}, FALSE)

\* deploy_fast step 2, lines 883-906: the container runs and, when the state
\* holds an id, docker inspect succeeds and returns that id
FastIdentity ==
    /\ pc = "f_identity"
    /\ UNCHANGED <<world, conf, files, op, st, clock, extCount>>
    /\ LET expected_id == st[1].standby_container_id IN
       IF ~ContainerRunning(loc.target_color)
       THEN Fail("not_running") /\ Obs({}, FALSE)
       ELSE IF expected_id # 0
       THEN \/ Fail("container_id") /\ Obs({}, FALSE)
            \/ IF cid[loc.target_color] # expected_id
               THEN Fail("id_mismatch") /\ Obs({}, FALSE)
               ELSE /\ pc' = "f_quick"
                    /\ UNCHANGED loc
                    /\ Obs({"running", "identity"}, FALSE)
       ELSE /\ pc' = "f_quick"
            /\ UNCHANGED loc
            /\ Obs({"running"}, FALSE)

\* deploy_fast step 3, lines 908-917
FastQuickCheck ==
    /\ pc = "f_quick"
    /\ UNCHANGED <<world, conf, files, op, st, clock, extCount>>
    /\ IF QuickCheck(loc.target_port)
       THEN pc' = "f_warmup" /\ UNCHANGED loc /\ Obs({"quick_check"}, FALSE)
       ELSE Fail("quick_check") /\ Obs({}, FALSE)

FastWarmup ==
    /\ pc = "f_warmup"
    /\ WarmupInference(loc.target_port, "swap_write")

\* ---------------------------------------------------------------- rollback

\* rollback lines 1023-1026
RollbackBegin ==
    /\ pc = "idle"
    /\ clock <= MaxOps
    /\ clock' = clock + 1
    /\ UNCHANGED <<world, conf, extCount>>
    /\ LET r == ReadState(FS) IN
          /\ stateFile' = r.fs.file
          /\ bakFile' = r.fs.bak
          /\ st' = <<r.state>>
          /\ loc' = [LocIdle EXCEPT !.active_color = r.state.active_color,
                                    !.target_color = r.state.standby_color,
                                    !.active_port = r.state.active_port,
                                    !.target_port = r.state.standby_port]
    /\ pc' = "r_ensure"
    /\ op' = "rollback"
    /\ ObsBegin

\* rollback lines 1032-1038: start the target when it is not running
RollbackEnsure ==
    /\ pc = "r_ensure"
    /\ UNCHANGED <<conf, files, clock, extCount>>
    /\ IF ServiceRunning(loc.target_color)
       THEN /\ pc' = "r_write"
            /\ UNCHANGED <<world, op, st, loc>>
            /\ Obs({}, FALSE)
       ELSE \/ \E becomesReady \in BOOLEAN :
                  /\ ComposeUp(loc.target_color, becomesReady)
                  /\ pc' = "r_health"
                  /\ UNCHANGED <<op, st, loc>>
                  /\ Obs({"start"}, FALSE)
            \/ /\ UNCHANGED world
               /\ End(FALSE, "start")

\* rollback lines 1039-1044
RollbackHealth ==
    /\ pc = "r_health"
    /\ UNCHANGED <<world, conf, files, clock, extCount>>
    /\ IF ReadyAt(loc.target_port)
       THEN /\ pc' = "r_write"
            /\ UNCHANGED <<op, st, loc>>
            /\ Obs({"health"}, FALSE)
       ELSE End(FALSE, "health")

\* rollback lines 1047-1049
RollbackWrite ==
    /\ pc = "r_write"
    /\ UNCHANGED <<world, confLoaded, files, op, st, loc, clock, extCount>>
    /\ confDisk' = loc.target_color
    /\ pc' = "r_test"
    /\ Obs({}, FALSE)

\* rollback line 1050: nginx -t (check=True), no except block around it
RollbackTest ==
    /\ pc = "r_test"
    /\ UNCHANGED <<world, conf, files, clock, extCount>>
    /\ \/ /\ pc' = "r_reload"
          /\ UNCHANGED <<op, st, loc>>
          /\ Obs({}, FALSE)
       \/ End(FALSE, "nginx_test")

\* seeded fault: rollback goes on after a reload that failed
RollbackReloadIgnoresFailure ==
    /\ pc = "r_reload"
    /\ UNCHANGED <<world, confDisk, files, clock, extCount>>
    /\ \E applied \in BOOLEAN :
          /\ confLoaded' = IF applied THEN confDisk ELSE confLoaded
          /\ pc' = "r_verify"
          /\ UNCHANGED <<op, st, loc>>
          /\ Obs({"reload"}, FALSE)

\* rollback lines 1051-1053: nginx -s reload (check=True)
RollbackReload ==
    /\ pc = "r_reload"
    /\ UNCHANGED <<world, confDisk, files, clock, extCount>>
    /\ \/ /\ confLoaded' = confDisk
          /\ pc' = "r_verify"
          /\ UNCHANGED <<op, st, loc>>
          /\ Obs({"reload"}, FALSE)
       \/ \E applied \in BOOLEAN :
             /\ confLoaded' = IF applied THEN confDisk ELSE confLoaded
             /\ End(FALSE, "reload")

\* seeded fault: rollback gives up when the verification fails
RollbackVerifyStrict ==
    /\ pc = "r_verify"
    /\ UNCHANGED <<world, conf, files, clock, extCount>>
    /\ \E n \in 0..NumProbes :
          /\ n > 0 => ProxyAlive
          /\ IF n = NumProbes
             THEN /\ loc' = [loc EXCEPT !.successes = n]
                  /\ pc' = "r_save"
                  /\ UNCHANGED <<op, st>>
                  /\ Obs({"verify"}, FALSE)
             ELSE End(FALSE, "verify")

\* rollback lines 1055-1062: a failed verification is only a warning
RollbackVerify ==
    /\ pc = "r_verify"
    /\ UNCHANGED <<world, conf, files, op, st, clock, extCount>>
    /\ \E n \in 0..NumProbes :
          /\ n > 0 => ProxyAlive
          /\ loc' = [loc EXCEPT !.successes = n]
          /\ Obs(IF n = NumProbes THEN {"verify"} ELSE {}, FALSE)
    /\ pc' = "r_save"

\* rollback lines 1064-1090
RollbackSave ==
    /\ pc = "r_save"
    /\ UNCHANGED <<world, conf, clock, extCount>>
    /\ LET e == Entry(loc.active_color, loc.target_color, TRUE,
                      "none", TRUE, "none", clock)
           n == NewState(st[1], loc.active_color, st[1].active_port,
                         loc.target_color, loc.target_port, e, clock)
           fs == SaveState(FS, n)
       IN /\ stateFile' = fs.file
          /\ bakFile' = fs.bak
    /\ End(TRUE, "none")

\* ------------------------------------------------------------- environment

\* between operations a container is stopped, started or recreated from
\* outside (operator, OOM kill, restart policy)
ObsExternal ==
    g' = [g EXCEPT !.last = NoOp, !.prev = NoOp, !.read = "none"]

ExternalStop ==
    /\ pc = "idle"
    /\ extCount < MaxExt
    /\ UNCHANGED <<conf, files, pc, op, st, loc, clock>>
    /\ \E c \in Colors :
          /\ running[c]
          /\ ComposeStop(c)
    /\ extCount' = extCount + 1
    /\ ObsExternal

ExternalStart ==
    /\ pc = "idle"
    /\ extCount < MaxExt
    /\ UNCHANGED <<conf, files, pc, op, st, loc, clock>>
    /\ \E c \in Colors, becomesReady \in BOOLEAN :
          /\ ~running[c]
          /\ ComposeUp(c, becomesReady)
    /\ extCount' = extCount + 1
    /\ ObsExternal

ExternalRecreate ==
    /\ pc = "idle"
    /\ extCount < MaxExt
    /\ UNCHANGED <<running, healthy, conf, files, pc, op, st, loc, clock>>
    /\ \E c \in Colors :
          /\ running[c]
          /\ cid' = [cid EXCEPT ![c] = nextId]
          /\ nextId' = nextId + 1
    /\ extCount' = extCount + 1
    /\ ObsExternal

\* ------------------------------------------------------- read-only commands

ObsReadOnly(name) ==
    g' = [g EXCEPT !.read = name]

\* seeded fault: status clears the pre-warm fields of a standby it finds
\* stopped
StatusResetsPrewarm ==
    /\ pc = "idle"
    /\ UNCHANGED <<world, conf, pc, op, st, loc, clock, extCount>>
    /\ LET r == ReadState(FS)
           s == IF r.state.standby_prewarmed
                   /\ ~ContainerRunning(r.state.standby_color)
                THEN ClearPrewarm(r.state) ELSE r.state
           fs == IF s # r.state THEN SaveState(r.fs, s) ELSE r.fs
       IN /\ stateFile' = fs.file
          /\ bakFile' = fs.bak
    /\ ObsReadOnly("status")

\* status, lines 1098-1175: read_state (which creates the document when it
\* is absent), then docker ps / stats, the config file and the standby
\* probes are only read
Status ==
    /\ pc = "idle"
    /\ UNCHANGED <<world, conf, pc, op, st, loc, clock, extCount>>
    /\ LET r == ReadState(FS) IN
          /\ stateFile' = r.fs.file
          /\ bakFile' = r.fs.bak
    /\ ObsReadOnly("status")

\* show_history, lines 1177-1199
ShowHistory ==
    /\ pc = "idle"
    /\ UNCHANGED <<world, conf, pc, op, st, loc, clock, extCount>>
    /\ LET r == ReadState(FS) IN
          /\ stateFile' = r.fs.file
          /\ bakFile' = r.fs.bak
    /\ ObsReadOnly("history")

\* ------------------------------------------------------------ interruption

AfterSwapBeforeSave == {"drain", "verify", "stop_old", "save"}

\* KeyboardInterrupt (lines 1252-1254) or a crash of the process between the
\* proxy swap and the state write of deploy / deploy_fast: the except block
\* catches DeploymentError only, nothing is compensated or recorded
Interrupt ==
    /\ op \in {"deploy", "fast"}
    /\ pc \in AfterSwapBeforeSave
    /\ extCount < MaxExt
    /\ UNCHANGED <<world, conf, files, clock>>
    /\ extCount' = extCount + 1
    /\ pc' = "idle"
    /\ op' = "none"
    /\ st' = <<>>
    /\ loc' = LocIdle
    /\ g' = [g EXCEPT !.last = [op |-> op, ok |-> FALSE, at |-> "interrupted"],
                      !.interrupted = TRUE]

\* ------------------------------------------------------- unreadable config

\* swap_nginx lines 389-396 when default.conf or the target template is
\* missing or unreadable: read_text raises an OSError before anything is
\* written; it is not a DeploymentError, so the except block of the caller
\* (lines 765, 979) does not run and the error leaves the program
SwapUnreadable ==
    /\ op \in {"deploy", "fast"}
    /\ pc = "swap_write"
    /\ extCount < MaxExt
    /\ extCount' = extCount + 1
    /\ UNCHANGED <<world, conf, files, clock>>
    /\ End(FALSE, "swap_unreadable")

\* ------------------------------------------- emergency script (rollback.py)

\* seeded fault: the script leaves deployment_count as it is
EmergencyNewStateNoBump(s, target, now) ==
    [ active_color         |-> target,
      active_port          |-> PortOf(target),
      standby_color        |-> IF target = "blue" THEN "green" ELSE "blue",
      standby_port         |-> IF target = "blue" THEN GreenPort ELSE BluePort,
      last_deployment      |-> now,
      deployment_count     |-> s.deployment_count,
      standby_prewarmed    |-> FALSE,
      standby_prewarmed_at |-> 0,
      standby_container_id |-> 0,
      history              |->
          Truncate(Append(s.history,
                          Entry(s.active_color, target, TRUE,
                                "none", TRUE, "none", now))) ]

\* rollback.py lines 181-203: the new document is built from the target
\* color and the port map alone
EmergencyNewState(s, target, now) ==
    [ active_color         |-> target,
      active_port          |-> PortOf(target),
      standby_color        |-> IF target = "blue" THEN "green" ELSE "blue",
      standby_port         |-> IF target = "blue" THEN GreenPort ELSE BluePort,
      last_deployment      |-> now,
      deployment_count     |-> s.deployment_count + 1,
      standby_prewarmed    |-> FALSE,
      standby_prewarmed_at |-> 0,
      standby_container_id |-> 0,
      history              |->
          Truncate(Append(s.history,
                          Entry(s.active_color, target, TRUE,
                                "none", TRUE, "none", now))) ]

\* rollback.py lines 55-78: no state file is an error; the target is --to
\* or the standby color of the document
EmergencyBegin ==
    /\ pc = "idle"
    /\ clock <= MaxOps
    /\ clock' = clock + 1
    /\ UNCHANGED <<world, conf, files, extCount>>
    /\ op' = "emergency"
    /\ ObsBegin
    /\ IF stateFile = <<>>
       THEN /\ pc' = "e_exit"
            /\ st' = <<>>
            /\ loc' = [LocIdle EXCEPT !.error = "no_state"]
       ELSE \E to \in {"none"} \cup Colors :
               LET s == stateFile[1]
                   target == IF to = "none" THEN s.standby_color ELSE to
               IN /\ pc' = "e_ensure"
                  /\ st' = <<s>>
                  /\ loc' = [LocIdle EXCEPT
                                !.active_color = s.active_color,
                                !.target_color = target,
                                !.target_port = PortOf(target)]

\* sys.exit(1)
EmergencyExit ==
    /\ pc = "e_exit"
    /\ UNCHANGED <<world, conf, files, clock, extCount>>
    /\ End(FALSE, loc.error)

\* rollback.py lines 80-109: the target is started when it is not running
EmergencyEnsure ==
    /\ pc = "e_ensure"
    /\ UNCHANGED <<conf, files, op, st, clock, extCount>>
    /\ IF ServiceRunning(loc.target_color)
       THEN /\ pc' = "e_write"
            /\ UNCHANGED <<world, loc>>
            /\ Obs({}, FALSE)
       ELSE \/ \E becomesReady \in BOOLEAN :
                  /\ ComposeUp(loc.target_color, becomesReady)
                  /\ pc' = "e_health"
                  /\ UNCHANGED loc
                  /\ Obs({"start"}, FALSE)
            \/ /\ UNCHANGED world
               /\ pc' = "e_exit"
               /\ loc' = [loc EXCEPT !.error = "start"]
               /\ Obs({}, FALSE)

\* rollback.py lines 110-136: wait up to 60s for /ready
EmergencyHealth ==
    /\ pc = "e_health"
    /\ UNCHANGED <<world, conf, files, op, st, clock, extCount>>
    /\ IF ReadyAt(loc.target_port)
       THEN /\ pc' = "e_write"
            /\ UNCHANGED loc
            /\ Obs({"health"}, FALSE)
       ELSE /\ pc' = "e_exit"
            /\ loc' = [loc EXCEPT !.error = "health"]
            /\ Obs({}, FALSE)

\* rollback.py lines 140-147
EmergencyWrite ==
    /\ pc = "e_write"
    /\ UNCHANGED <<world, confLoaded, files, op, st, loc, clock, extCount>>
    /\ confDisk' = loc.target_color
    /\ pc' = "e_test"
    /\ Obs({}, FALSE)

\* rollback.py lines 149-156: nginx -t
EmergencyTest ==
    /\ pc = "e_test"
    /\ UNCHANGED <<world, conf, files, op, st, clock, extCount>>
    /\ \/ /\ pc' = "e_reload"
          /\ UNCHANGED loc
       \/ /\ pc' = "e_exit"
          /\ loc' = [loc EXCEPT !.error = "nginx_test"]
    /\ Obs({}, FALSE)

\* rollback.py lines 158-164: nginx -s reload
EmergencyReload ==
    /\ pc = "e_reload"
    /\ UNCHANGED <<world, confDisk, files, op, st, clock, extCount>>
    /\ \/ /\ confLoaded' = confDisk
          /\ pc' = "e_save"
          /\ UNCHANGED loc
          /\ Obs({"reload"}, FALSE)
       \/ \E applied \in BOOLEAN :
             /\ confLoaded' = IF applied THEN confDisk ELSE confLoaded
             /\ pc' = "e_exit"
             /\ loc' = [loc EXCEPT !.error = "reload"]
             /\ Obs({}, FALSE)

\* rollback.py lines 166-206: one probe through the proxy whose result is
\* only printed, then the new document is written over state.json with
\* open(state_file, "w"); no copy to .bak is made
EmergencySave ==
    /\ pc = "e_save"
    /\ UNCHANGED <<world, conf, bakFile, clock, extCount>>
    /\ stateFile' = <<EmergencyNewState(st[1], loc.target_color, clock)>>
    /\ End(TRUE, "none")

\* --------------------------------------------------- the probes, poll by poll

\* what one curl call gives back: an exception of subprocess.run, or the
\* return code of curl (7: connection refused, 22: HTTP status >= 400 under
\* -f) with the body it printed
NoBody == [kind |-> "none", status |-> "absent", response |-> "absent"]

ReadyBodies ==
    {[kind |-> k, status |-> "absent", response |-> "absent"] :
        k \in {"non_json", "list"}}
    \cup {[kind |-> "object", status |-> s, response |-> "absent"] :
             s \in {"absent", "loading", "ready"}}

ChatBodies ==
    {[kind |-> k, status |-> "absent", response |-> "absent"] :
        k \in {"non_json", "list", "number"}}
    \cup {[kind |-> "object", status |-> "absent", response |-> r] :
             r \in {"absent", "null", "empty", "text"}}

CurlResults(bodies) ==
    {[exc |-> e, rc |-> 0, body |-> NoBody] :
        e \in {"TimeoutExpired", "OSError"}}
    \cup {[exc |-> "none", rc |-> r, body |-> NoBody] : r \in {7, 22}}
    \cup {[exc |-> "none", rc |-> 0, body |-> b] : b \in bodies}

\* the classes caught by `except Exception`
Exceptions ==
    {"TimeoutExpired", "OSError", "JSONDecodeError", "AttributeError",
     "TypeError", "DeploymentError"}

\* what the body of the try block of one poll raises (lines 151-174):
\* json.loads raises JSONDecodeError on a body that is not JSON, body.get
\* raises AttributeError on a JSON value that is not an object
PollRaises(r) ==
    IF r.exc # "none" THEN r.exc
    ELSE IF r.rc # 0 THEN "none"
    ELSE CASE r.body.kind = "non_json" -> "JSONDecodeError"
           [] r.body.kind = "object"   -> "none"
           [] OTHER                    -> "AttributeError"

\* seeded fault: the poll loop catches the timeout of the poll only
PollOutcomeCatchesTimeoutOnly(r) ==
    LET x == PollRaises(r) IN
       IF x = "none"
       THEN IF r.rc = 0 /\ r.body.status = "ready" THEN "return_true"
            ELSE "continue"
       ELSE IF x \in {"JSONDecodeError", "TimeoutExpired"} THEN "continue"
       ELSE "raise"

\* check_container_health lines 150-180, one iteration: return True on
\* status "ready"; JSONDecodeError is caught at line 169, everything else
\* at line 175; then sleep and poll again
PollOutcome(r) ==
    LET x == PollRaises(r) IN
       IF x = "none"
       THEN IF r.rc = 0 /\ r.body.status = "ready" THEN "return_true"
            ELSE "continue"
       ELSE IF x = "JSONDecodeError" \/ x \in Exceptions THEN "continue"
       ELSE "raise"

\* check_container_health lines 144-146
WaitBegin ==
    /\ pc = "idle"
    /\ UNCHANGED <<world, conf, files, st, clock, extCount, g>>
    /\ \E t \in 0..MaxWait :
          loc' = [timeout |-> t, now |-> 0, attempts |-> 0,
                  polls |-> <<>>, ret |-> "none"]
    /\ op' = "wait_ready"
    /\ pc' = "w_loop"

\* check_container_health lines 148-180: the window is open, one poll; it
\* and the sleep after it take one or two intervals
WaitPoll ==
    /\ op = "wait_ready"
    /\ pc = "w_loop"
    /\ loc.now < loc.timeout
    /\ UNCHANGED <<world, conf, files, op, st, clock, extCount, g>>
    /\ \E r \in CurlResults(ReadyBodies), d \in 1..2 :
          LET o == PollOutcome(r)
              l == [loc EXCEPT !.attempts = @ + 1,
                               !.polls = Append(@, r)]
          IN CASE o = "return_true" ->
                    /\ loc' = [l EXCEPT !.ret = "true"]
                    /\ pc' = "w_done"
               [] o = "continue" ->
                    /\ loc' = [l EXCEPT !.now = @ + d]
                    /\ pc' = "w_loop"
               [] OTHER ->
                    /\ loc' = [l EXCEPT !.ret = "raised"]
                    /\ pc' = "w_done"

\* check_container_health lines 148 and 182-185: the window has elapsed
WaitExpire ==
    /\ op = "wait_ready"
    /\ pc = "w_loop"
    /\ loc.now >= loc.timeout
    /\ UNCHANGED <<world, conf, files, op, st, clock, extCount, g>>
    /\ loc' = [loc EXCEPT !.ret = "false"]
    /\ pc' = "w_done"

\* warmup_inference lines 339-384: returns ("ok") or raises the named
\* exception.  `"response" in body` is a key test on an object, a member
\* test on a list and a TypeError on a number; body['response'][:50] is a
\* TypeError on null
WarmupOutcome(r) ==
    IF r.exc = "TimeoutExpired" THEN "DeploymentError"
    ELSE IF r.exc # "none" THEN r.exc
    ELSE IF r.rc # 0 THEN "DeploymentError"
    ELSE CASE r.body.kind = "non_json" -> "DeploymentError"
           [] r.body.kind = "list"     -> "DeploymentError"
           [] r.body.kind = "number"   -> "TypeError"
           [] OTHER ->
                CASE r.body.response = "absent" -> "DeploymentError"
                  [] r.body.response = "null"   -> "TypeError"
                  [] OTHER                      -> "ok"

\* one call of warmup_inference
WarmupCall ==
    /\ pc = "idle"
    /\ UNCHANGED <<world, conf, files, st, clock, extCount, g>>
    /\ \E r \in CurlResults(ChatBodies) :
          loc' = [resp |-> r, ret |-> WarmupOutcome(r)]
    /\ op' = "warmup"
    /\ pc' = "w_done"

\* ------------------------------------------------ save_state, step by step

\* the keys of the document in the order json.dump writes them
FieldOrder ==
    << "active_color", "active_port", "standby_color", "standby_port",
       "last_deployment", "deployment_count", "standby_prewarmed",
       "standby_prewarmed_at", "standby_container_id", "history" >>

\* the content of the file when the first k keys of the document have
\* reached the disk; with no key it is the empty file open(.., "w") leaves
Prefix(d, k) == [f \in {FieldOrder[i] : i \in 1..k} |-> d[f]]

\* the documents the operations hand to save_state
SaveInputs(file, now) ==
    LET s == (IF file = <<>> THEN DefaultState ELSE file[1])
        ok == Entry(s.active_color, s.standby_color, TRUE,
                    "none", FALSE, "none", now)
        ko == Entry(s.active_color, s.standby_color, FALSE,
                    "none", FALSE, "health", now)
    IN { ClearPrewarm(s),
         RecordFailure(s, ko),
         NewState(s, s.active_color, s.active_port,
                  s.standby_color, s.standby_port, ok, now),
         [s EXCEPT !.standby_prewarmed = TRUE,
                   !.standby_prewarmed_at = now,
                   !.standby_container_id = 1] }

\* a caller enters save_state(state)
SaveEnter ==
    /\ pc = "idle"
    /\ clock <= MaxOps
    /\ clock' = clock + 1
    /\ UNCHANGED <<world, conf, files, st, extCount, g>>
    /\ \E d \in SaveInputs(stateFile, clock) :
          loc' = [doc |-> d, old |-> stateFile, flushed |-> 0]
    /\ op' = "save"
    /\ pc' = "s_copy"

\* save_state lines 95-96
SaveCopy ==
    /\ op = "save"
    /\ pc = "s_copy"
    /\ UNCHANGED <<world, conf, stateFile, op, st, loc, clock, extCount, g>>
    /\ bakFile' = IF stateFile # <<>> THEN stateFile ELSE bakFile
    /\ pc' = "s_open"

\* save_state lines 97-98: open(state_file, "w") creates or truncates the
\* file itself; there is no temporary sibling
SaveOpen ==
    /\ op = "save"
    /\ pc = "s_open"
    /\ UNCHANGED <<world, conf, bakFile, op, st, loc, clock, extCount, g>>
    /\ stateFile' = <<Prefix(loc.doc, 0)>>
    /\ pc' = "s_dump"

\* save_state lines 99-100: json.dump writes through the buffer of f; a
\* part of the text reaches the file before the rest
SaveFlush ==
    /\ op = "save"
    /\ pc = "s_dump"
    /\ UNCHANGED <<world, conf, bakFile, pc, op, st, clock, extCount, g>>
    /\ \E k \in (loc.flushed + 1)..(Len(FieldOrder) - 1) :
          /\ stateFile' = <<Prefix(loc.doc, k)>>
          /\ loc' = [loc EXCEPT !.flushed = k]

\* save_state, end of the with block: the file is closed with all the text
SaveClose ==
    /\ op = "save"
    /\ pc = "s_dump"
    /\ UNCHANGED <<world, conf, bakFile, st, clock, extCount, g>>
    /\ stateFile' = <<loc.doc>>
    /\ loc' = LocIdle
    /\ op' = "none"
    /\ pc' = "idle"

\* the process is killed inside save_state
SaveCrash ==
    /\ op = "save"
    /\ pc \in {"s_copy", "s_open", "s_dump"}
    /\ UNCHANGED <<world, conf, files, op, st, loc, clock, extCount, g>>
    /\ pc' = "crashed"

\* ------------------------------------------------------------ specification

\* the document one successful deploy from the defaults leaves
AfterFirstDeploy ==
    NewState(DefaultState, "blue", BluePort, "green", GreenPort,
             Entry("blue", "green", TRUE, DeployMode, FALSE, "none", 1), 1)

\* the document twenty deploys that failed their readiness wait leave
AfterTwentyFailures ==
    [DefaultState EXCEPT !.history =
        [i \in 1..HistoryLimit |->
            Entry("blue", "green", FALSE, DeployMode, FALSE, "health",
                  i - HistoryLimit)]]

InitFiles == {<<>>, <<DefaultState>>, <<AfterFirstDeploy>>}

InitWith(documents) ==
    /\ stateFile \in documents
    /\ bakFile = <<>>
    /\ LET a == IF stateFile = <<>> THEN "blue" ELSE stateFile[1].active_color
       IN /\ running = [c \in Colors |-> c = a]
          /\ healthy = [c \in Colors |-> c = a]
          /\ cid = [c \in Colors |-> IF c = a THEN 1 ELSE 0]
          /\ confDisk = a
          /\ confLoaded = a
    /\ nextId = 2
    /\ pc = "idle"
    /\ op = "none"
    /\ st = <<>>
    /\ loc = LocIdle
    /\ clock = 1
    /\ extCount = 0
    /\ g = [ pre |-> Snapshot, prevPre |-> Snapshot,
             last |-> NoOp, prev |-> NoOp,
             dropped |-> FALSE, prevDropped |-> FALSE,
             passed |-> {}, restoreFailed |-> FALSE,
             interrupted |-> FALSE, read |-> "none" ]

Next ==
    \/ DeployBegin \/ DeployPreflight \/ DeployStart \/ DeployHealth
    \/ DeployWarmup
    \/ SwapWrite \/ SwapTest \/ SwapReload \/ SwapReloadAgain
    \/ Drain \/ VerifyTrafficSwitched \/ StopOld \/ DeploySave \/ FastSave
    \/ HandlerRollbackNginx \/ HandlerReload \/ HandlerStandby
    \/ HandlerRecord
    \/ PrewarmBegin \/ PrewarmPreflight \/ PrewarmStart \/ PrewarmHealth
    \/ PrewarmWarmup \/ PrewarmContainerId \/ PrewarmSave \/ PrewarmCleanup
    \/ FastBegin \/ FastCheckPrewarmed \/ FastIdentity \/ FastQuickCheck
    \/ FastWarmup
    \/ RollbackBegin \/ RollbackEnsure \/ RollbackHealth \/ RollbackWrite
    \/ RollbackTest \/ RollbackReload \/ RollbackVerify \/ RollbackSave
    \/ ExternalStop \/ ExternalStart \/ ExternalRecreate

Init == InitWith(InitFiles)

Spec == Init /\ [][Next]_vars

\* the operations on a history that is full
InitFullHistory == InitWith({<<AfterTwentyFailures>>})

SpecFullHistory == InitFullHistory /\ [][Next]_vars

\* the operations with the read-only commands between them, from the first
\* invocation in a project that has no state document
InitNoDocument == InitWith({<<>>})

NextReadOnly == Next \/ Status \/ ShowHistory

SpecReadOnly == InitNoDocument /\ [][NextReadOnly]_vars

\* the operations and an interruption of deploy / deploy_fast
NextInterrupt == Next \/ Interrupt

SpecInterrupt == Init /\ [][NextInterrupt]_vars

\* the operations and the emergency script
NextEmergency ==
    \/ Next
    \/ EmergencyBegin \/ EmergencyExit \/ EmergencyEnsure \/ EmergencyHealth
    \/ EmergencyWrite \/ EmergencyTest \/ EmergencyReload \/ EmergencySave

SpecEmergency == Init /\ [][NextEmergency]_vars

\* the operations and a swap that cannot read its files
NextUnreadable == Next \/ SwapUnreadable

SpecUnreadable == Init /\ [][NextUnreadable]_vars

\* the probes taken alone, one call from its first poll to its return
InitProbes == InitWith({<<DefaultState>>})

NextProbes == WaitBegin \/ WaitPoll \/ WaitExpire \/ WarmupCall

SpecProbes == InitProbes /\ [][NextProbes]_vars

\* the state writes, step by step, with a crash of the process
NextCrash ==
    SaveEnter \/ SaveCopy \/ SaveOpen \/ SaveFlush \/ SaveClose \/ SaveCrash

SpecCrash == Init /\ [][NextCrash]_vars

\* a step of the operation in progress
OperationStep == pc # "idle" /\ Next

\* the process of an operation keeps running: every external call it makes
\* returns within its deadline (run_command timeouts, the window of
\* check_container_health, the sleeps), so its next step is taken
SpecLive == Init /\ [][Next]_vars /\ WF_vars(OperationStep)

\* ================================================================ properties

\* the terminal state of an operation, before anything else happens
Ended(o, ok) == pc = "idle" /\ g.last.op = o /\ g.last.ok = ok

\* the state document an operation started from
DocOf(file) == IF file = <<>> THEN DefaultState ELSE file[1]

BeforeSwap == {"preflight", "start", "health", "warmup"}

AtOrAfterSwap == {"swap_test", "swap_reload", "verify"}

FastBeforeSwap ==
    {"not_prewarmed", "not_running", "container_id", "id_mismatch",
     "quick_check", "warmup"}

\* ---- C1
\* C1: whenever a deploy ends in failure and the proxy was routing to a
\* running replica when the deploy began, the proxy routes to a running
\* replica when the deploy ends
C1_FailedDeployKeepsRouting ==
    (Ended("deploy", FALSE) /\ g.pre.running[g.pre.loaded])
        => running[confLoaded]

\* ---- C2
\* the first of two deploys starts with the proxy on the upstream of the
\* active color of the state document (prerequisites of test_deployment.py)
TwoDeploysFromConsistentStart ==
    /\ Ended("deploy", TRUE)
    /\ g.prev.op = "deploy" /\ g.prev.ok
    /\ g.prevPre.loaded = DocOf(g.prevPre.file).active_color

\* C2: over two successive successful deploys no state, from the start of
\* the first to the end of the second, has the proxy on a replica that is
\* not running and ready
C2_NoDropAcrossTwoDeploys ==
    TwoDeploysFromConsistentStart => (~g.prevDropped /\ ~g.dropped)

C2_Witness == TwoDeploysFromConsistentStart

\* ---- C3
WellFormed(d) ==
    /\ d.active_color \in Colors
    /\ d.standby_color \in Colors
    /\ d.active_color # d.standby_color
    /\ d.active_port = PortOf(d.active_color)
    /\ d.standby_port = PortOf(d.standby_color)

\* C3: every state document on disk has two distinct colors, each with its
\* fixed port
C3_PersistedStateWellFormed ==
    stateFile # <<>> => WellFormed(stateFile[1])

C3_Witness ==
    /\ Ended("rollback", TRUE)
    /\ g.prev.op = "deploy" /\ g.prev.ok
    /\ stateFile[1].deployment_count >= 2

\* ---- C4
\* C4: a successful deploy, deploy_fast or rollback leaves deployment_count
\* one above its value when the operation started
C4_CountIncreasesByOne ==
    (pc = "idle" /\ g.last.ok /\ g.last.op \in {"deploy", "fast", "rollback"})
        => /\ stateFile # <<>>
           /\ stateFile[1].deployment_count
                 = DocOf(g.pre.file).deployment_count + 1

C4_Witness ==
    /\ Ended("fast", TRUE)
    /\ stateFile[1].deployment_count = DocOf(g.pre.file).deployment_count + 1

\* ---- C5
TwoDeploys ==
    /\ Ended("deploy", TRUE)
    /\ g.prev.op = "deploy" /\ g.prev.ok

\* C5: two successive successful deploys return active_color to its first
\* value, raise deployment_count by 2 and leave only the active replica
\* running
C5_RoundTrip ==
    TwoDeploys =>
        LET d0 == DocOf(g.prevPre.file)
            d  == stateFile[1]
        IN /\ d.active_color = d0.active_color
           /\ d.deployment_count = d0.deployment_count + 2
           /\ running[d.active_color]
           /\ ~running[d.standby_color]

C5_Witness ==
    /\ TwoDeploys
    /\ stateFile[1].active_color = "green"

\* ---- C6
\* history entries without the timestamp and the mode tag
Plain(h) ==
    [i \in 1..Len(h) |->
        [ from_color |-> h[i].from_color, to_color |-> h[i].to_color,
          success |-> h[i].success, rollback |-> h[i].rollback ]]

\* what is compared: the document (timestamps and mode apart), the proxy
\* upstream and the running replicas
Outcome(doc, disk, loaded, run) ==
    [ active_color |-> doc.active_color, active_port |-> doc.active_port,
      standby_color |-> doc.standby_color, standby_port |-> doc.standby_port,
      deployment_count |-> doc.deployment_count,
      standby_prewarmed |-> doc.standby_prewarmed,
      standby_prewarmed_at |-> doc.standby_prewarmed_at,
      standby_container_id |-> doc.standby_container_id,
      history |-> Plain(doc.history),
      disk |-> disk, loaded |-> loaded, running |-> run ]

\* the outcome of one traffic switch from the document d0
SwitchedFrom(d0) ==
    [ active_color |-> d0.standby_color, active_port |-> d0.standby_port,
      standby_color |-> d0.active_color, standby_port |-> d0.active_port,
      deployment_count |-> d0.deployment_count + 1,
      standby_prewarmed |-> FALSE,
      standby_prewarmed_at |-> 0,
      standby_container_id |-> 0,
      history |-> Plain(Truncate(Append(d0.history,
                     Entry(d0.active_color, d0.standby_color, TRUE,
                           "none", FALSE, "none", 0)))),
      disk |-> d0.standby_color, loaded |-> d0.standby_color,
      running |-> [c \in Colors |-> c = d0.standby_color] ]

OutcomeNow == Outcome(stateFile[1], confDisk, confLoaded, running)

PrewarmThenFast ==
    /\ Ended("fast", TRUE)
    /\ g.prev.op = "prewarm" /\ g.prev.ok

\* C6: from a starting state S, a successful deploy and a successful prewarm
\* followed by a successful deploy_fast both end in the one outcome
\* determined by S
C6_PrewarmFastEqualsDeploy ==
    /\ Ended("deploy", TRUE)
          => OutcomeNow = SwitchedFrom(DocOf(g.pre.file))
    /\ PrewarmThenFast
          => OutcomeNow = SwitchedFrom(DocOf(g.prevPre.file))

C6_Witness ==
    /\ PrewarmThenFast
    /\ OutcomeNow = SwitchedFrom(DocOf(g.prevPre.file))

LastEntry == stateFile[1].history[Len(stateFile[1].history)]

FailureRecorded(step) ==
    /\ stateFile # <<>>
    /\ Len(stateFile[1].history) > 0
    /\ ~LastEntry.success
    /\ LastEntry.error = step
    /\ LastEntry.timestamp = clock

C9_SwapFailureConsistent ==
    (pc = "h_rollback" /\ loc.error \in {"swap_test", "swap_reload"})
        => confDisk = confLoaded

\* ---- C10
\* C10: deploy_fast is at the swap only with standby_prewarmed true, the
\* standby container running with the stored id, and the quick check and
\* the warmup passed; a deploy_fast that fails before the swap leaves the
\* proxy config and the active replica as they were
C10_FastGuards ==
    /\ (op = "fast" /\ pc = "swap_write") =>
          /\ st[1].standby_prewarmed
          /\ running[loc.target_color]
          /\ cid[loc.target_color] = st[1].standby_container_id
          /\ {"quick_check", "warmup"} \subseteq g.passed
    /\ (Ended("fast", FALSE) /\ g.last.at \in FastBeforeSwap) =>
          LET a == DocOf(g.pre.file).active_color IN
             /\ confDisk = g.pre.disk
             /\ confLoaded = g.pre.loaded
             /\ running[a] = g.pre.running[a]
             /\ healthy[a] = g.pre.healthy[a]
             /\ cid[a] = g.pre.cid[a]

C10_Witness == op = "fast" /\ pc = "swap_write"

\* ---- C11
PrewarmFields(d) ==
    <<d.standby_prewarmed, d.standby_prewarmed_at, d.standby_container_id>>

Cleared == <<FALSE, 0, 0>>

\* the standby container is the one the operation found
StandbyUntouched(sb) ==
    /\ running[sb] = g.pre.running[sb]
    /\ healthy[sb] = g.pre.healthy[sb]
    /\ cid[sb] = g.pre.cid[sb]

\* C11: a deploy_fast that fails before the swap leaves the standby
\* container as it found it; the persisted pre-warm fields are cleared when
\* the standby is not running and are the ones of the start otherwise;
\* active_color is unchanged
C11_FastFailBeforeSwap ==
    (Ended("fast", FALSE) /\ g.last.at \in FastBeforeSwap) =>
        LET d0 == DocOf(g.pre.file)
            sb == d0.standby_color
        IN /\ StandbyUntouched(sb)
           /\ PrewarmFields(stateFile[1]) =
                 IF running[sb] THEN PrewarmFields(d0) ELSE Cleared
           /\ stateFile[1].active_color = d0.active_color

\* a pre-warmed standby was stopped from outside, deploy_fast failed
C11_Witness ==
    /\ Ended("fast", FALSE)
    /\ g.last.at = "not_running"
    /\ DocOf(g.pre.file).standby_prewarmed
    /\ ~stateFile[1].standby_prewarmed

\* ---- C12
\* the state in which deploy_fast passes its guards again
FastRetriable(d0) ==
    /\ stateFile[1].standby_prewarmed
    /\ PrewarmFields(stateFile[1]) = PrewarmFields(d0)
    /\ running[d0.standby_color]
    /\ healthy[d0.standby_color]
    /\ cid[d0.standby_color] = stateFile[1].standby_container_id

C13_SuccessClearsPrewarm ==
    (Ended("deploy", TRUE) \/ Ended("fast", TRUE) \/ Ended("rollback", TRUE))
        => PrewarmFields(stateFile[1]) = Cleared

\* a rollback that started from a pre-warmed state
C13_Witness ==
    /\ Ended("rollback", TRUE)
    /\ DocOf(g.pre.file).standby_prewarmed
    /\ PrewarmFields(stateFile[1]) = Cleared

\* ---- C14
\* C14: when prewarm has returned successfully the persisted state has
\* standby_prewarmed true and a container id
C14_PrewarmSetsFields ==
    Ended("prewarm", TRUE) =>
        /\ stateFile[1].standby_prewarmed
        /\ stateFile[1].standby_container_id # 0

C14_Witness ==
    /\ Ended("prewarm", TRUE)
    /\ g.last.at = "none"
    /\ ~DocOf(g.pre.file).standby_prewarmed
    /\ stateFile[1].standby_prewarmed

\* ---- C15
\* C15: when prewarm has returned successfully, through the full sequence or
\* through the 'already warm' return, the persisted container id is the id
\* of the container running as the standby
C15_PrewarmedIdentifiesStandby ==
    Ended("prewarm", TRUE) =>
        LET d == stateFile[1] IN
           /\ d.standby_prewarmed
           /\ d.standby_container_id # 0
           /\ running[d.standby_color]
           /\ cid[d.standby_color] = d.standby_container_id

\* ---- C16
\* C16: from its first step to its return, prewarm leaves the proxy config
\* (on disk and loaded), the active replica, and active_color,
\* standby_color, both ports and deployment_count of the persisted state as
\* they were
C16_PrewarmFrame ==
    (op = "prewarm" \/ (pc = "idle" /\ g.last.op = "prewarm")) =>
        LET d0 == DocOf(g.pre.file)
            d  == stateFile[1]
            a  == d0.active_color
        IN /\ confDisk = g.pre.disk
           /\ confLoaded = g.pre.loaded
           /\ running[a] = g.pre.running[a]
           /\ healthy[a] = g.pre.healthy[a]
           /\ cid[a] = g.pre.cid[a]
           /\ d.active_color = d0.active_color
           /\ d.standby_color = d0.standby_color
           /\ d.active_port = d0.active_port
           /\ d.standby_port = d0.standby_port
           /\ d.deployment_count = d0.deployment_count

\* a prewarm that found a stale standby, restarted it and succeeded
C16_Witness ==
    /\ Ended("prewarm", TRUE)
    /\ g.last.at = "none"
    /\ g.pre.running[DocOf(g.pre.file).standby_color]
    /\ running[DocOf(g.pre.file).active_color]

\* ---- C17
PrewarmFailures == {"preflight", "start", "health", "warmup", "container_id"}

Persisted(file) == IF file = <<>> THEN Cleared ELSE PrewarmFields(file[1])

\* C18: a step that writes standby_prewarmed = true with pre-warm fields
\* other than the ones on disk is a step of prewarm taken after the
\* readiness wait and the warm-up of this run have passed
C18_PrewarmedOnlyAfterWarmup ==
    [][ (Persisted(stateFile')[1] /\ Persisted(stateFile') # Persisted(stateFile))
          => (op = "prewarm" /\ {"health", "warmup"} \subseteq g.passed) ]_vars

C18_Witness ==
    /\ Ended("prewarm", TRUE)
    /\ g.last.at = "none"
    /\ stateFile[1].standby_prewarmed
    /\ {"health", "warmup"} \subseteq g.passed

\* ---- C19
\* prewarm was invoked with the active replica and the proxy passing the
\* preflight and the standby container running and ready
InvokedOnHealthyStandby ==
    LET d0 == DocOf(g.pre.file) IN
       /\ pc = "idle" /\ g.last.op = "prewarm"
       /\ g.pre.running[d0.active_color] /\ g.pre.healthy[d0.active_color]
       /\ g.pre.running[g.pre.loaded]
       /\ g.pre.running[d0.standby_color] /\ g.pre.healthy[d0.standby_color]

ReturnedAlreadyWarm ==
    /\ g.last.ok
    /\ g.last.at = "already_warm"
    /\ running = g.pre.running
    /\ healthy = g.pre.healthy
    /\ cid = g.pre.cid
    /\ stateFile = g.pre.file

\* C19 as stated: a prewarm invoked on a running and ready standby returns
\* 'already warm' and changes neither the containers nor the state document
C19_Original == InvokedOnHealthyStandby => ReturnedAlreadyWarm

\* C19 amended: so it is when the state document has standby_prewarmed true
C19_AlreadyWarm ==
    (InvokedOnHealthyStandby /\ DocOf(g.pre.file).standby_prewarmed)
        => ReturnedAlreadyWarm

C19_Witness ==
    /\ InvokedOnHealthyStandby
    /\ DocOf(g.pre.file).standby_prewarmed
    /\ g.last.at = "already_warm"

\* ---- C20
\* prewarm runs on a standby container that was running and not ready when
\* it was invoked, the preflight of the active replica and the proxy passed
OnUnreadyStandby ==
    LET d0 == DocOf(g.pre.file) IN
       /\ g.pre.running[d0.standby_color]
       /\ ~g.pre.healthy[d0.standby_color]
       /\ "preflight" \in g.passed

HistoryOf(file) == IF file = <<>> THEN <<>> ELSE file[1].history

\* C21: the persisted history has at most 20 entries in the order of their
\* timestamps; a step that changes it appends one entry as the last one and,
\* when the history was full, drops the first
C21_HistoryBounded ==
    [][ LET h  == HistoryOf(stateFile)
            h2 == HistoryOf(stateFile')
            k  == Len(h2)
        IN /\ k <= HistoryLimit
           /\ \A i \in 1..(k - 1) : h2[i].timestamp < h2[i + 1].timestamp
           /\ h2 # h =>
                 /\ k = IF Len(h) < HistoryLimit THEN Len(h) + 1
                        ELSE HistoryLimit
                 /\ h2[k].timestamp = clock
                 /\ \A i \in 1..(k - 1) : h2[i] = h[i + Len(h) + 1 - k] ]_vars

\* an entry was appended to the full history: the oldest one is gone
C21_Witness ==
    LET h == HistoryOf(stateFile) IN
       /\ Len(h) = HistoryLimit
       /\ h[HistoryLimit].timestamp = clock
       /\ clock > 1
       /\ h[1].timestamp = 2 - HistoryLimit

\* ---- C22
EngineOps == {"deploy", "prewarm", "fast", "rollback"}

\* C22: when one of the four operations has ended, the history is the one
\* it started from with exactly one entry appended
C22_EveryOutcomeAppendsOne ==
    (pc = "idle" /\ g.last.op \in EngineOps) =>
        LET h0 == DocOf(g.pre.file).history
            h  == HistoryOf(stateFile)
        IN /\ Len(h) = Len(h0) + 1
           /\ SubSeq(h, 1, Len(h0)) = h0

\* ---- C23
\* C23 as stated: an existing state document is written only by the step
\* that ends the operation
C23_Original ==
    [][ (stateFile # <<>> /\ stateFile' # stateFile) => pc' = "idle" ]_vars

\* C23 amended: the document is written by the step that ends the
\* operation, and besides by read_state creating it, by step 0 of deploy
\* clearing the fields of a pre-warmed standby, and by the except block of
\* deploy_fast resetting them before it records the failure
C23_WritesOfAnOperation ==
    [][ stateFile' # stateFile =>
          \/ pc' = "idle"
          \/ /\ pc = "idle"
             /\ stateFile = <<>>
             /\ stateFile' = <<DefaultState>>
          \/ /\ pc = "idle" /\ op' = "deploy"
             /\ stateFile # <<>>
             /\ stateFile[1].standby_prewarmed
             /\ stateFile' = <<ClearPrewarm(stateFile[1])>>
          \/ /\ op = "fast" /\ pc = "h_standby"
             /\ ~running[loc.target_color]
             /\ stateFile' = <<ClearPrewarm(st[1])>> ]_vars

\* deploy has persisted the cleared fields and is at its preflight
C23_Witness ==
    /\ op = "deploy"
    /\ pc = "d_preflight"
    /\ DocOf(g.pre.file).standby_prewarmed
    /\ stateFile # g.pre.file
    /\ PrewarmFields(stateFile[1]) = Cleared

\* ---- C24
\* C24: a step that persists another active_color is taken with the proxy
\* reloaded onto that color in this run and, in deploy and deploy_fast,
\* after the old active container was stopped
C24_ActiveWrittenAfterReload ==
    [][ DocOf(stateFile').active_color # DocOf(stateFile).active_color =>
          /\ "reload" \in g.passed
          /\ confLoaded = DocOf(stateFile').active_color
          /\ op \in {"deploy", "fast"} =>
                /\ "stop_old" \in g.passed
                /\ ~running[DocOf(stateFile).active_color] ]_vars

C24_Witness ==
    /\ Ended("fast", TRUE)
    /\ stateFile[1].active_color # DocOf(g.pre.file).active_color
    /\ confLoaded = stateFile[1].active_color
    /\ {"reload", "stop_old"} \subseteq g.passed

\* ---- C25
\* C25: once deploy or deploy_fast was interrupted between the swap and the
\* state write, no step of a later operation stops the replica the proxy
\* routes to
C25_InterruptKeepsRouting ==
    [][ (g.interrupted /\ ~(pc = "idle" /\ pc' = "idle") /\ running[confLoaded])
           => running'[confLoaded'] ]_vars

\* ---- C26
\* C26: a rollback whose reload succeeded goes on to the state write
\* whatever the verification returns; the written state has the color and
\* port pairs swapped and a last history entry with rollback = true from the
\* previous active to the previous standby
C26_RollbackRecordsAfterReload ==
    /\ (op = "rollback" /\ "reload" \in g.passed) => pc \in {"r_verify", "r_save"}
    /\ (pc = "idle" /\ g.last.op = "rollback" /\ "reload" \in g.passed)
          => g.last.ok
    /\ Ended("rollback", TRUE) =>
          LET d0 == DocOf(g.pre.file)
              d  == stateFile[1]
          IN /\ d.active_color = d0.standby_color
             /\ d.active_port = d0.standby_port
             /\ d.standby_color = d0.active_color
             /\ d.standby_port = d0.active_port
             /\ LastEntry.timestamp = clock
             /\ LastEntry.success
             /\ LastEntry.rollback
             /\ LastEntry.from_color = d0.active_color
             /\ LastEntry.to_color = d0.standby_color

\* a rollback whose verification did not get its three answers
C26_Witness ==
    /\ Ended("rollback", TRUE)
    /\ "verify" \notin g.passed
    /\ LastEntry.rollback
    /\ stateFile[1].active_color = DocOf(g.pre.file).standby_color

\* ---- C27
ContainersAndProxyKept ==
    /\ running' = running
    /\ healthy' = healthy
    /\ cid' = cid
    /\ confDisk' = confDisk
    /\ confLoaded' = confLoaded

\* C27 as stated: status and history leave the state document, the proxy
\* config and the containers as they are
C27_Original ==
    [][ g'.read # "none" =>
           (stateFile' = stateFile /\ ContainersAndProxyKept) ]_vars

\* C27 amended: so they do, except that the first of them creates the
\* state document with the defaults when there is none
C27_ReadOnlyCommands ==
    [][ g'.read # "none" =>
           /\ \/ stateFile' = stateFile
              \/ stateFile = <<>> /\ stateFile' = <<DefaultState>>
           /\ bakFile' = bakFile
           /\ ContainersAndProxyKept ]_vars

\* status was the first command in a project without a state document
C27_Witness ==
    /\ g.read = "status"
    /\ clock = 1
    /\ g.pre.file = <<>>
    /\ stateFile = <<DefaultState>>

\* ---- C28
\* C28: a step of deploy or deploy_fast that stops the container of the
\* active color is the stop of the old container, taken after the reload,
\* the drain and a verification with 3 of 3 probes answered; the three are
\* passed in that order
C28_OldStoppedAfterVerification ==
    [][ /\ LET a == IF op = "none" THEN loc'.active_color
                    ELSE loc.active_color
           IN ((op \in {"deploy", "fast"} \/ op' \in {"deploy", "fast"})
                 /\ running[a] /\ ~running'[a]) =>
                 /\ pc = "stop_old"
                 /\ {"reload", "drain", "verify"} \subseteq g.passed
                 /\ loc.successes = NumProbes
        /\ op' \in {"deploy", "fast"} =>
              /\ "verify" \in g'.passed => "drain" \in g.passed
              /\ "drain" \in g'.passed => "reload" \in g.passed ]_vars

C28_Witness ==
    /\ Ended("deploy", TRUE)
    /\ g.pre.running[DocOf(g.pre.file).active_color]
    /\ ~running[DocOf(g.pre.file).active_color]
    /\ {"reload", "drain", "verify", "stop_old"} \subseteq g.passed

\* ---- C29
\* C29: a deploy invoked on a pre-warmed state has the pre-warm fields
\* cleared in the document from its first step on, has no standby container
\* when it comes to start one, and is at the swap with a standby container
\* that is not the pre-warmed one
C29_DeployDiscardsPrewarm ==
    (op = "deploy" /\ DocOf(g.pre.file).standby_prewarmed) =>
        LET d0 == DocOf(g.pre.file)
            sb == d0.standby_color
        IN /\ PrewarmFields(stateFile[1]) = Cleared
           /\ pc = "d_start" => ~running[sb]
           /\ pc = "swap_write" =>
                 /\ running[sb]
                 /\ cid[sb] # d0.standby_container_id
                 /\ cid[sb] # g.pre.cid[sb]

C29_Witness ==
    /\ op = "deploy"
    /\ pc = "swap_write"
    /\ DocOf(g.pre.file).standby_prewarmed
    /\ g.pre.running[DocOf(g.pre.file).standby_color]
    /\ g.pre.cid[DocOf(g.pre.file).standby_color]
          = DocOf(g.pre.file).standby_container_id

C35_BackupBeforeEveryWrite ==
    [][ (stateFile # <<>> /\ stateFile' # stateFile)
           => bakFile' = stateFile ]_vars

\* ---- C40
\* the document the engine's rollback writes from the document s
EngineRollbackState(s, now) ==
    NewState(s, s.active_color, s.active_port,
             s.standby_color, s.standby_port,
             Entry(s.active_color, s.standby_color, TRUE,
                   "none", TRUE, "none", now), now)

\* C40: from a well-formed document the script whose target is the standby
\* color writes the document the engine's rollback would write, and the
\* engine's rollback writes the document the script would write
C40_ScriptAgreesWithEngine ==
    [][ /\ (pc = "e_save" /\ WellFormed(st[1])
               /\ loc.target_color = st[1].standby_color)
           => stateFile' = <<EngineRollbackState(st[1], clock)>>
        /\ (pc = "r_save" /\ WellFormed(st[1]))
           => stateFile'
                 = <<EmergencyNewState(st[1], st[1].standby_color, clock)>>
      ]_vars

\* the script, run on the document a deploy left, has swapped the pairs
\* back, counted the deployment and recorded the rollback
C40_Witness ==
    /\ Ended("emergency", TRUE)
    /\ g.prev.op = "deploy" /\ g.prev.ok
    /\ stateFile[1].active_color = DocOf(g.pre.file).standby_color
    /\ stateFile[1].active_port = DocOf(g.pre.file).standby_port
    /\ stateFile[1].deployment_count = DocOf(g.pre.file).deployment_count + 1
    /\ LastEntry.rollback
    /\ LastEntry.from_color = DocOf(g.pre.file).active_color

\* ---- C33
\* C33: the history entry a deploy has written carries mode "normal" and
\* the one a deploy_fast has written carries mode "fast"
C33_ModeRecorded ==
    (pc = "idle" /\ g.last.op \in {"deploy", "fast"}
        /\ HistoryOf(stateFile) # DocOf(g.pre.file).history)
        => LastEntry.mode = IF g.last.op = "deploy" THEN "normal" ELSE "fast"

\* ---- C37
CommittedFields(d) ==
    <<d.active_color, d.active_port, d.standby_color, d.standby_port,
      d.deployment_count, d.last_deployment>>

\* C37: when a deploy or a deploy_fast has failed, the colors, the ports,
\* deployment_count and last_deployment of the document are those the
\* operation started from
C37_FailureKeepsCommittedFields ==
    (Ended("deploy", FALSE) \/ Ended("fast", FALSE)) =>
        /\ stateFile # <<>>
        /\ CommittedFields(stateFile[1]) = CommittedFields(DocOf(g.pre.file))

\* a deploy that started from a pre-warmed document, after an earlier
\* deployment, has failed: the pre-warm fields and the history differ
C37_Witness ==
    /\ Ended("deploy", FALSE)
    /\ DocOf(g.pre.file).standby_prewarmed
    /\ PrewarmFields(stateFile[1]) = Cleared
    /\ Len(stateFile[1].history) = Len(DocOf(g.pre.file).history) + 1
    /\ ~LastEntry.success
    /\ CommittedFields(stateFile[1]) = CommittedFields(DocOf(g.pre.file))

\* ---- C38
\* C38: when a rollback that found a state document and a config file equal
\* to the loaded config has failed, the document is unchanged and the
\* config file is the config the proxy has loaded
C38_FailedRollbackLeavesNoTrace ==
    (Ended("rollback", FALSE) /\ g.pre.file # <<>>
        /\ g.pre.disk = g.pre.loaded)
        => (stateFile = g.pre.file /\ confDisk = confLoaded)

\* ---- C39
\* C39: when a deploy has failed in its swap step, the standby container is
\* stopped and the history is the one the deploy started from with one
\* failed entry appended
C39_SwapFailureCompensated ==
    (Ended("deploy", FALSE)
        /\ g.last.at \in {"swap_unreadable", "swap_test", "swap_reload"})
        => /\ ~running[DocOf(g.pre.file).standby_color]
           /\ Len(HistoryOf(stateFile))
                 = Len(DocOf(g.pre.file).history) + 1
           /\ ~LastEntry.success

\* ---- C31
IsReady(r) == r.exc = "none" /\ r.rc = 0 /\ r.body.status = "ready"

\* C31: check_container_health never raises; it has returned true exactly
\* when its last poll, and no poll before it, answered status "ready"; it
\* has returned false only with the window elapsed and no poll answered
\* "ready"; while it polls, no poll has answered "ready"
C31_WaitReady ==
    op = "wait_ready" =>
        LET n == Len(loc.polls) IN
           /\ loc.ret # "raised"
           /\ loc.attempts = n
           /\ \A i \in 1..(n - 1) : ~IsReady(loc.polls[i])
           /\ (n > 0 /\ IsReady(loc.polls[n])) <=> loc.ret = "true"
           /\ loc.ret = "false" => loc.now >= loc.timeout
           /\ pc = "w_done" <=> loc.ret # "none"

\* true at the third poll, after a poll that timed out and a body that is
\* JSON but no object
C31_Witness ==
    /\ op = "wait_ready"
    /\ loc.ret = "true"
    /\ Len(loc.polls) = 3
    /\ loc.polls[1].exc = "TimeoutExpired"
    /\ loc.polls[2].body.kind = "list"
    /\ IsReady(loc.polls[3])

\* ---- C32
\* C32: warmup_inference has returned normally only on a response whose
\* body is an object with a non-empty answer
C32_WarmupNeedsAnswer ==
    (op = "warmup" /\ loc.ret = "ok") =>
        /\ loc.resp.exc = "none"
        /\ loc.resp.rc = 0
        /\ loc.resp.body.kind = "object"
        /\ loc.resp.body.response = "text"

\* ---- C34
\* C34: when the process was killed inside save_state, the state document
\* on disk is the complete previous one or the complete new one
C34_WriteIsAtomic ==
    pc = "crashed" => (stateFile = loc.old \/ stateFile = <<loc.doc>>)

====
